---------------------------- MODULE Spec2Model ----------------------------
(***************************************************************************)
(* VoroScope: the scan orchestration of a motorised microscope stage.      *)
(*                                                                         *)
(*   Spec          the Flask control surface of app.py: the live-preview   *)
(*                 generator, camera_lock / streaming_active, and the      *)
(*                 start/stop of the scanner.py subprocess, one step per   *)
(*                 place where the threaded server can switch threads.     *)
(*   SpecNoForce   Spec without the force_release endpoint.                *)
(*   SpecCalib     Spec with the calibrate endpoint and calibrate.py.      *)
(*   SpecScan      one run of scanner.py (run_scan) with stop requests.    *)
(*   SpecBurst     one run of burst.py: capture loop and writer thread.    *)
(*   SpecTraverse  either scan script, run once.                           *)
(*   SpecGrid      the grid and sweep-speed calculations as functions of   *)
(*                 the configuration.                                      *)
(*   SpecConfig    save_named_config and load_named_config as functions    *)
(*                 of the filename.                                        *)
(*   SpecMove      PrinterInterface.move_to as a function of its axes.     *)
(*   SpecMotion    one run of scanner.py beside the /api/move and          *)
(*                 /api/scan/z_dry_run requests of the server.             *)
(*                                                                         *)
(* Lengths are integers in one fixed unit (the code uses floats in mm).    *)
(***************************************************************************)
EXTENDS Integers, Sequences, FiniteSets, TLC

\* ------------------------------------------------------------------ bounds
MaxThreads == 2   \* request threads of the threaded server (app.py:820)
MaxProcs == 2     \* scanner.py processes spawned in one behaviour
MaxSpan == 3      \* the end coordinates of a scan area lie in -MaxSpan..MaxSpan
STEPS_W == 2      \* burst.py:19 has 19 columns; the model scans STEPS_W
STEPS_H == 2      \* burst.py:20 has 24 rows; the model scans STEPS_H
total_frames == 2 \* burst.py:172 has int(3.0 * 10) = 30 frames in a burst
MaxWriteFailures == 1  \* frame writes that fail in one behaviour
MaxCoord == 12    \* grid calculation: end_x lies in -MaxCoord..MaxCoord
MaxStep == 5      \* grid calculation: step_size_x lies in -MaxStep..MaxStep
MaxZ == 3         \* sweep speed: stack_start_z and stack_end_z lie in 0..MaxZ
MaxFrames == 4    \* sweep speed: stack_frames lies in -1..MaxFrames
MaxRate == 4      \* sweep speed: framerate lies in -1..MaxRate
MaxMoveFailures == 1   \* move commands of one run that are not acknowledged
MaxAxis == 2      \* move_to alone: each axis given lies in -MaxAxis..MaxAxis
MaxLen == 3       \* named configurations: a filename has at most MaxLen characters
MaxCalibrations == 1   \* calibrate.py processes spawned in one behaviour
MaxManualRequests == 1 \* /api/move and /api/scan/z_dry_run requests beside one run

Threads == 1..MaxThreads
Procs == 1..MaxProcs
Calibs == 1..MaxCalibrations

VARIABLES
  camera_lock,       \* app.py:23  TRUE = locked (threading.Lock has no owner)
  lock_holder,       \* the thread whose acquire() locked camera_lock, 0 when unlocked
  streaming_active,  \* app.py:24
  scan_process,      \* app.py:20  0 = None, else the Popen handle last stored
  config_file,       \* app.py:16  scan_config.json: 0 = as found, else the process whose start wrote it
  proc,              \* each scanner.py process: "none", "spawned", "camera", "exited"
  sigint,            \* each process: a SIGINT has been sent and not yet taken
  th,                \* each request thread: [pc, resp, yielded]
  reply,             \* the status last returned by toggle_stream, stop_scan or force_release
  \* ---- scanner.py, run_scan: the worker process in detail (process 1)
  cfg,               \* the configuration read at scanner.py:13-25
  scan_pc,           \* the worker's position in run_scan
  sent,              \* the move command of scan_pc is sent and not yet acknowledged
  yi,                \* scanner.py:85  row index
  xk,                \* scanner.py:91  position in x_range (the xk-th column visited)
  cam,               \* the worker's camera: "none", "started", "recording", "closed"
  failed,            \* some move_to of the run has returned False
  exit_cause,        \* how the body of run_scan was left: "none", "complete", "sigint", "error"
  log,               \* every command sent to the motion controller and the camera, in order
  \* ---- burst.py: the capture loop (main thread) and background_writer
  bpc,               \* the main thread's position in main / perform_burst_capture_ram
  h_step,            \* burst.py:245  row index
  w_k,               \* burst.py:250  position in w_range
  frame_buffer,      \* burst.py:168  frames captured into RAM in the current burst
  write_queue,       \* burst.py:46   queue.Queue(): the tasks put and not yet got
  unfinished_tasks,  \* queue.Queue's count of tasks put and not yet task_done
  wpc,               \* background_writer's position
  wtask,             \* burst.py:51   the task the writer holds
  wi,                \* burst.py:61   index of the next frame to save
  saved,             \* per grid point, the frames of its batch saved to disk
  write_failures,    \* frame writes that have failed so far
  bexit,             \* how the try block of main was left
  blog,              \* the G-code sent and the frames captured, in order
  \* ---- the grid calculation taken alone
  calc,              \* the values last computed from cfg, and by which code
  \* ---- calibrate.py
  calib              \* each calibrate.py process: "none", "spawned", "camera", "exited"

appVars == <<camera_lock, lock_holder, streaming_active, scan_process, config_file, proc, sigint, th, reply>>
scanVars == <<cfg, scan_pc, sent, yi, xk, cam, failed, exit_cause, log>>
burstVars == <<bpc, h_step, w_k, frame_buffer, write_queue, unfinished_tasks,
               wpc, wtask, wi, saved, write_failures, bexit, blog>>
gridVars == <<calc>>
calibVars == <<calib>>
nonAppVars == <<scanVars, burstVars, gridVars, calibVars>>
nonScanVars == <<burstVars, gridVars, calibVars>>
nonBurstVars == <<appVars, scanVars, gridVars, calibVars>>
nonGridVars == <<appVars, scan_pc, sent, yi, xk, cam, failed, exit_cause, log, burstVars, calibVars>>
vars == <<camera_lock, lock_holder, streaming_active, scan_process, config_file, proc, sigint, th, reply,
          cfg, scan_pc, sent, yi, xk, cam, failed, exit_cause, log,
          bpc, h_step, w_k, frame_buffer, write_queue, unfinished_tasks,
          wpc, wtask, wi, saved, write_failures, bexit, blog, calc, calib>>

\* ------------------------------------------------------- app.py: initial state
\* A thread serves one request at a time: a /video_feed connection (pc "init",
\* "stream") or a /api/scan/start request (pc "check_stream", "check_proc",
\* "spawn"); resp is how its last request ended.
IdleThread == [pc |-> "idle", resp |-> "none", yielded |-> FALSE]

InitApp ==
  /\ camera_lock = FALSE
  /\ lock_holder = 0
  /\ streaming_active = FALSE
  /\ scan_process = 0
  /\ config_file = 0
  /\ proc = [p \in Procs |-> "none"]
  /\ sigint = [p \in Procs |-> FALSE]
  /\ th = [t \in Threads |-> IdleThread]
  /\ reply = "none"

\* Popen.poll() is None: the process has been spawned and has not exited.
Alive(p) == proc[p] \in {"spawned", "camera"}

\* A handle has been stored, whether or not its process still runs.
ScanRunningHandleOnly == scan_process # 0

\* scan_process and scan_process.poll() is None   (app.py:234, 246, 252)
ScanRunning == scan_process # 0 /\ Alive(scan_process)

\* scan_status (app.py:245): side-effect free.
ScanStatus == ScanRunning

\* A generator between its successful camera_lock.acquire and its cleanup.
GenHolds(t) == th[t].pc \in {"init", "stream"}

\* A generator that has the camera open: Picamera2() returned, close() not yet run.
GenCamera(t) == th[t].pc = "stream"

\* ------------------------------------------------- generate_frames (app.py:41)
\* The finally block, lines 99-109: close the camera if it was opened, clear the
\* flag, release the lock.  Lock.release() on an unlocked lock raises
\* RuntimeError, which ends the generator with an error.
\* A finally block that clears the flag and leaves the lock as it is.
GenCleanupNoRelease(t) ==
  /\ streaming_active' = FALSE
  /\ UNCHANGED <<camera_lock, lock_holder>>
  /\ th' = [th EXCEPT ![t].pc = "idle", ![t].resp = "ended"]

GenCleanup(t) ==
  /\ streaming_active' = FALSE
  /\ camera_lock' = FALSE
  /\ lock_holder' = 0
  /\ th' = [th EXCEPT ![t].pc = "idle",
                      ![t].resp = IF camera_lock THEN "ended" ELSE "error"]

\* Lines 47-51: the non-blocking acquire on the first next() of the generator;
\* when it fails the generator returns without a frame.
GenAcquire(t) ==
  /\ th[t].pc = "idle"
  /\ IF camera_lock
       THEN /\ th' = [th EXCEPT ![t] = [pc |-> "idle", resp |-> "busy", yielded |-> FALSE]]
            /\ UNCHANGED <<camera_lock, lock_holder>>
       ELSE /\ camera_lock' = TRUE
            /\ lock_holder' = t
            /\ th' = [th EXCEPT ![t] = [pc |-> "init", resp |-> "none", yielded |-> FALSE]]
  /\ UNCHANGED <<streaming_active, scan_process, config_file, proc, sigint, reply, nonAppVars>>

\* Lines 56-70: cam = Picamera2(), configure, start, set_controls, then
\* streaming_active = True.  The driver is outside the repository: a call
\* returns or raises, and a raise runs the cleanup (closing cam if it was set).
GenInitCamera(t) ==
  /\ th[t].pc = "init"
  /\ \/ /\ streaming_active' = TRUE
        /\ th' = [th EXCEPT ![t].pc = "stream"]
        /\ UNCHANGED <<camera_lock, lock_holder>>
     \/ GenCleanup(t)
  /\ UNCHANGED <<scan_process, config_file, proc, sigint, reply, nonAppVars>>

\* Lines 72-93: one turn of `while True`, which reads no flag: a frame is yielded.
GenYield(t) ==
  /\ th[t].pc = "stream"
  /\ th' = [th EXCEPT ![t].yielded = TRUE]
  /\ UNCHANGED <<camera_lock, lock_holder, streaming_active, scan_process, config_file, proc, sigint, reply, nonAppVars>>

\* Lines 95-109: the client disconnects (GeneratorExit at the yield) or a
\* capture/encode call raises; either way the finally block runs.
GenEnd(t) ==
  /\ th[t].pc = "stream"
  /\ GenCleanup(t)
  /\ UNCHANGED <<scan_process, config_file, proc, sigint, reply, nonAppVars>>

\* ---------------------------------------------------- toggle_stream (app.py:196)
ToggleStream(active) ==
  /\ streaming_active' = active
  /\ reply' = "ok"
  /\ UNCHANGED <<camera_lock, lock_holder, scan_process, config_file, proc, sigint, th, nonAppVars>>

\* ---------------------------------------------------- force_release (app.py:283)
\* A force_release that clears the flag only when it found the lock locked.
ForceReleaseIfLocked ==
  /\ camera_lock' = FALSE
  /\ lock_holder' = 0
  /\ streaming_active' = (IF camera_lock THEN FALSE ELSE streaming_active)
  /\ reply' = "released"
  /\ UNCHANGED <<scan_process, config_file, proc, sigint, th, nonAppVars>>

\* Lines 286-292: release the lock if it is locked (whoever locked it; an
\* error of release() is swallowed), clear the flag, return "released".
ForceRelease ==
  /\ camera_lock' = FALSE
  /\ lock_holder' = 0
  /\ streaming_active' = FALSE
  /\ reply' = "released"
  /\ UNCHANGED <<scan_process, config_file, proc, sigint, th, nonAppVars>>

\* ------------------------------------------------------- start_scan (app.py:228)
\* A free process slot for every request in flight keeps Popen within MaxProcs.
StartInFlight == {t \in Threads : th[t].pc \in {"check_stream", "check_proc", "spawn"}}
FreeSlots == {p \in Procs : proc[p] = "none"}

StartEnter(t) ==
  /\ th[t].pc = "idle"
  /\ Cardinality(FreeSlots) > Cardinality(StartInFlight)
  /\ th' = [th EXCEPT ![t] = [pc |-> "check_stream", resp |-> "none", yielded |-> FALSE]]
  /\ UNCHANGED <<camera_lock, lock_holder, streaming_active, scan_process, config_file, proc, sigint, reply, nonAppVars>>

\* A start_scan that writes the request's payload to the configuration file
\* before it tests the flag.
StartCheckStreamAfterWrite(t) ==
  /\ th[t].pc = "check_stream"
  /\ config_file' = MaxProcs + t
  /\ th' = [th EXCEPT ![t].pc = IF streaming_active THEN "idle" ELSE "check_proc",
                      ![t].resp = IF streaming_active THEN "busy_stream" ELSE "none"]
  /\ UNCHANGED <<camera_lock, lock_holder, streaming_active, scan_process, proc, sigint, reply, nonAppVars>>

\* Lines 231-232
StartCheckStream(t) ==
  /\ th[t].pc = "check_stream"
  /\ th' = [th EXCEPT ![t].pc = IF streaming_active THEN "idle" ELSE "check_proc",
                      ![t].resp = IF streaming_active THEN "busy_stream" ELSE "none"]
  /\ UNCHANGED <<camera_lock, lock_holder, streaming_active, scan_process, config_file, proc, sigint, reply, nonAppVars>>

\* Lines 234-235
StartCheckProc(t) ==
  /\ th[t].pc = "check_proc"
  /\ th' = [th EXCEPT ![t].pc = IF ScanRunning THEN "idle" ELSE "spawn",
                      ![t].resp = IF ScanRunning THEN "busy_scan" ELSE "none"]
  /\ UNCHANGED <<camera_lock, lock_holder, streaming_active, scan_process, config_file, proc, sigint, reply, nonAppVars>>

\* Lines 238-242: write the configuration, Popen, store the handle.
StartSpawn(t) ==
  /\ th[t].pc = "spawn"
  /\ LET p == CHOOSE q \in FreeSlots : \A r \in FreeSlots : q <= r
     IN /\ proc' = [proc EXCEPT ![p] = "spawned"]
        /\ scan_process' = p
        /\ config_file' = p
  /\ th' = [th EXCEPT ![t].pc = "idle", ![t].resp = "started"]
  /\ UNCHANGED <<camera_lock, lock_holder, streaming_active, sigint, reply, nonAppVars>>

\* -------------------------------------------------------- stop_scan (app.py:250)
\* Lines 252-255: SIGINT to a running scan and "stopping", else "not_running".
StopScan ==
  /\ IF ScanRunning
       THEN /\ sigint' = [sigint EXCEPT ![scan_process] = TRUE]
            /\ reply' = "stopping"
       ELSE /\ reply' = "not_running"
            /\ UNCHANGED sigint
  /\ UNCHANGED <<camera_lock, lock_holder, streaming_active, scan_process, config_file, proc, th, nonAppVars>>

\* ------------------------------------- the scanner.py process, seen from app.py
\* scanner.py:36  cam = Picamera2(): the process opens the camera without
\* consulting camera_lock (a lock of the server process); the call returns or
\* raises, and a raise before the try block ends the process.
ProcOpenCamera(p) ==
  /\ proc[p] = "spawned"
  /\ \/ proc' = [proc EXCEPT ![p] = "camera"]
     \/ /\ proc' = [proc EXCEPT ![p] = "exited"]
  /\ sigint' = [sigint EXCEPT ![p] = IF proc'[p] = "exited" THEN FALSE ELSE @]
  /\ UNCHANGED <<camera_lock, lock_holder, streaming_active, scan_process, config_file, th, reply, nonAppVars>>

\* The process ends: the run completes, raises, or takes a pending SIGINT
\* (scanner.py:116-120 closes the camera; so does the death of the process).
ProcExit(p) ==
  /\ proc[p] = "camera"
  /\ proc' = [proc EXCEPT ![p] = "exited"]
  /\ sigint' = [sigint EXCEPT ![p] = FALSE]
  /\ UNCHANGED <<camera_lock, lock_holder, streaming_active, scan_process, config_file, th, reply, nonAppVars>>

\* ======================================================================
\* scanner.py: run_scan, the worker process spawned by start_scan
\* ======================================================================
\* Configurations hold whole millimetres (the code converts every value with
\* float()); on whole numbers the "{x:.2f}" of move_to is exact.
ScanProc == 1

Abs(v) == IF v < 0 THEN -v ELSE v
Max(a, b) == IF a >= b THEN a ELSE b

\* The step count with the quotient truncated instead of rounded up.
CeilDivTruncated(a, b) == a \div b

\* math.ceil(a / b) for a >= 0, b > 0
CeilDiv(a, b) == (a + b - 1) \div b

RECURSIVE Gcd(_, _)
Gcd(a, b) == IF b = 0 THEN a ELSE Gcd(b, a % b)

\* A speed in mm/min as a fraction in lowest terms.
Frac(n, d) == LET g == Gcd(n, d) IN IF g = 0 THEN [num |-> 0, den |-> 1]
                                     ELSE [num |-> n \div g, den |-> d \div g]
Whole(n) == [num |-> n, den |-> 1]

\* load_config's defaults (app.py:30-38), the §8 scenario.
DefaultConfig ==
  [start_x |-> 0, end_x |-> 10, start_y |-> 0, end_y |-> 10,
   step_size_x |-> 5, step_size_y |-> 5,
   stack_start_z |-> 5, stack_end_z |-> 0, stack_frames |-> 150, framerate |-> 10]

\* scanner.py:56-71
width_mm(c) == c.end_x - c.start_x
height_mm(c) == c.end_y - c.start_y
step_size_x_abs(c) == Abs(c.step_size_x)
step_size_y_abs(c) == Abs(c.step_size_y)
StepSizeZero(c) == step_size_x_abs(c) = 0 \/ step_size_y_abs(c) = 0
\* The columns counted as fence posts, one more than the intervals.
steps_xFencePosts(c) == CeilDiv(Abs(width_mm(c)), step_size_x_abs(c)) + 1

steps_x(c) == Max(1, CeilDiv(Abs(width_mm(c)), step_size_x_abs(c)))
steps_y(c) == Max(1, CeilDiv(Abs(height_mm(c)), step_size_y_abs(c)))
\* The X step without the direction of the scan area.
x_step_sizeUnsigned(c) == step_size_x_abs(c)

x_step_size(c) == step_size_x_abs(c) * (IF width_mm(c) >= 0 THEN 1 ELSE -1)
y_step_size(c) == step_size_y_abs(c) * (IF height_mm(c) >= 0 THEN 1 ELSE -1)

\* scanner.py:73-77.  duration = stack_frames / framerate raises
\* ZeroDivisionError when framerate is 0; duration > 0 iff both have one sign.
z_dist(c) == Abs(c.stack_end_z - c.stack_start_z)
DurationRaises(c) == c.framerate = 0
DurationPositive(c) == c.stack_frames * c.framerate > 0
\* The sweep speed in mm/s.
z_speedPerSecond(c) == IF DurationPositive(c)
                         THEN Frac(z_dist(c) * Abs(c.framerate), Abs(c.stack_frames))
                         ELSE Whole(1000)

z_speed(c) == IF DurationPositive(c)
                THEN Frac(z_dist(c) * 60 * Abs(c.framerate), Abs(c.stack_frames))
                ELSE Whole(1000)

\* hardware.py:33-44  PrinterInterface.move_to: an axis is <<v>> or Absent
\* (None); the command names the axes given, in the order X, Y, Z.
Absent == <<>>

\* The axes taken by truth value: an axis given as 0 is left out.
MovePartsTruthy(x, y, z) ==
  (IF x # Absent /\ x[1] # 0 THEN << <<"X", x[1]>> >> ELSE <<>>) \o
  (IF y # Absent /\ y[1] # 0 THEN << <<"Y", y[1]>> >> ELSE <<>>) \o
  (IF z # Absent /\ z[1] # 0 THEN << <<"Z", z[1]>> >> ELSE <<>>)

MoveParts(x, y, z) ==
  (IF x # Absent THEN << <<"X", x[1]>> >> ELSE <<>>) \o
  (IF y # Absent THEN << <<"Y", y[1]>> >> ELSE <<>>) \o
  (IF z # Absent THEN << <<"Z", z[1]>> >> ELSE <<>>)
MoveCmd(x, y, z, speed) == [op |-> "move", parts |-> MoveParts(x, y, z), speed |-> speed]
\* The controller's log after move_to: nothing is sent when no axis is given.
MoveTo(l, x, y, z, speed) ==
  IF MoveParts(x, y, z) # <<>> THEN Append(l, MoveCmd(x, y, z, speed)) ELSE l

\* The columns of every row taken in ascending order.
xiAscending == xk

\* An odd row taken from column steps_x down to column 1.
xiReversedFromEnd == IF yi % 2 = 0 THEN xk ELSE steps_x(cfg) - xk

\* scanner.py:89  x_range: the xk-th column of row yi.
xi == IF yi % 2 = 0 THEN xk ELSE steps_x(cfg) - 1 - xk
curr_x == cfg.start_x + xi * x_step_size(cfg)      \* scanner.py:92
curr_y == cfg.start_y + yi * y_step_size(cfg)      \* scanner.py:86

\* The positions of run_scan at which a move_to is called.
LoopMovePcs == {"xy", "z_start", "sweep", "z_return"}
MovePcs == {"safe_z", "lift"} \cup LoopMovePcs
\* The try block, scanner.py:81-114.
TryPcs == {"safe_z", "record", "stop_rec"} \cup LoopMovePcs
FinallyPcs == {"cam_stop", "lift"}

\* The move_to call at each position (speed defaults to 5000).
MoveAt(pc, l) ==
  CASE pc = "safe_z"   -> MoveTo(l, Absent, Absent, <<cfg.stack_start_z + 2>>, Whole(1000))
    [] pc = "xy"       -> MoveTo(l, <<curr_x>>, <<curr_y>>, Absent, Whole(5000))
    [] pc = "z_start"  -> MoveTo(l, Absent, Absent, <<cfg.stack_start_z>>, Whole(1000))
    [] pc = "sweep"    -> MoveTo(l, Absent, Absent, <<cfg.stack_end_z>>, z_speed(cfg))
    [] pc = "z_return" -> MoveTo(l, Absent, Absent, <<cfg.stack_start_z>>, Whole(1000))
    [] pc = "lift"     -> MoveTo(l, Absent, Absent, <<cfg.stack_start_z + 5>>, Whole(5000))

InitScanOff ==
  /\ cfg = DefaultConfig
  /\ scan_pc = "off"
  /\ sent = FALSE
  /\ yi = 0
  /\ xk = 0
  /\ cam = "none"
  /\ failed = FALSE
  /\ exit_cause = "none"
  /\ log = <<>>

\* The process ends: Popen.poll() is no longer None.
WorkerEnds(pc) ==
  /\ scan_pc' = pc
  /\ proc' = [proc EXCEPT ![ScanProc] = "exited"]
  /\ sigint' = [sigint EXCEPT ![ScanProc] = FALSE]

WorkerRuns == Alive(ScanProc) /\ ~sigint[ScanProc]

\* scanner.py:13-53: load the configuration, open and start the camera.
\* Picamera2() returns or raises; a raise here is outside the try block.
WorkerStartCamera ==
  /\ WorkerRuns /\ scan_pc = "load"
  /\ \/ /\ cam' = "started"
        /\ scan_pc' = "grid"
        /\ proc' = [proc EXCEPT ![ScanProc] = "camera"]
        /\ UNCHANGED <<sigint, exit_cause>>
     \/ /\ WorkerEnds("crashed")
        /\ exit_cause' = "error"
        /\ UNCHANGED cam
  /\ UNCHANGED <<camera_lock, lock_holder, streaming_active, scan_process, config_file, th, reply,
                 cfg, sent, yi, xk, failed, log, nonScanVars>>

\* scanner.py:55-79: the grid and the sweep speed.  ValueError (line 63) and
\* ZeroDivisionError (line 76) are raised before the try block of line 81.
WorkerGrid ==
  /\ WorkerRuns /\ scan_pc = "grid"
  /\ IF StepSizeZero(cfg) \/ DurationRaises(cfg)
       THEN /\ WorkerEnds("crashed")
            /\ exit_cause' = "error"
       ELSE /\ scan_pc' = "safe_z"
            /\ UNCHANGED <<proc, sigint, exit_cause>>
  /\ UNCHANGED <<camera_lock, lock_holder, streaming_active, scan_process, config_file, th, reply,
                 cfg, sent, yi, xk, cam, failed, log, nonScanVars>>

\* A move_to call, first half: the command is posted to the controller.
WorkerSend ==
  /\ WorkerRuns /\ scan_pc \in MovePcs /\ ~sent
  /\ log' = MoveAt(scan_pc, log)
  /\ sent' = TRUE
  /\ UNCHANGED <<appVars, cfg, scan_pc, yi, xk, cam, failed, exit_cause, nonScanVars>>

\* Where run_scan goes when the move_to at pc has returned.
AfterMove(pc) ==
  CASE pc = "safe_z"  -> [pc |-> "xy", yi |-> 0, xk |-> 0]
    [] pc = "xy"      -> [pc |-> "z_start", yi |-> yi, xk |-> xk]
    [] pc = "z_start" -> [pc |-> "record", yi |-> yi, xk |-> xk]
    [] pc = "sweep"   -> [pc |-> "stop_rec", yi |-> yi, xk |-> xk]
    [] pc = "z_return" ->
         IF xk + 1 < steps_x(cfg) THEN [pc |-> "xy", yi |-> yi, xk |-> xk + 1]
         ELSE IF yi + 1 < steps_y(cfg) THEN [pc |-> "xy", yi |-> yi + 1, xk |-> 0]
         ELSE [pc |-> "cam_stop", yi |-> yi, xk |-> xk]
    [] pc = "lift"    -> [pc |-> "done", yi |-> yi, xk |-> xk]

\* The move_to calls of the run that have returned False.
MoveFailures == Cardinality({i \in 1..Len(log) : log[i].op = "ack" /\ ~log[i].ok})

\* A move_to call, second half: send_gcode returns True (acknowledged) or
\* False (an HTTP error, or no answer within its 5 s timeout, hardware.py:26-31);
\* run_scan discards the value and goes on.
WorkerAck(ok) ==
  /\ WorkerRuns /\ scan_pc \in MovePcs /\ sent
  /\ ok \/ MoveFailures < MaxMoveFailures
  /\ sent' = FALSE
  /\ failed' = (failed \/ ~ok)
  /\ log' = Append(log, [op |-> "ack", ok |-> ok])
  /\ LET n == AfterMove(scan_pc)
     IN /\ yi' = n.yi
        /\ xk' = n.xk
        /\ IF n.pc = "done"
             THEN WorkerEnds("done")
             ELSE scan_pc' = n.pc /\ UNCHANGED <<proc, sigint>>
        /\ exit_cause' = IF n.pc = "cam_stop" THEN "complete" ELSE exit_cause
  /\ UNCHANGED <<camera_lock, lock_holder, streaming_active, scan_process, config_file, th, reply, cfg, cam, nonScanVars>>

\* scanner.py:103-105: cam.start_recording to tile_{yi}_{xi}.h264, or it raises.
WorkerRecord ==
  /\ WorkerRuns /\ scan_pc = "record"
  /\ \/ /\ cam' = "recording"
        /\ log' = Append(log, [op |-> "start_recording", tile |-> <<yi, xi>>])
        /\ scan_pc' = "sweep"
        /\ UNCHANGED exit_cause
     \/ /\ scan_pc' = "cam_stop"
        /\ exit_cause' = "error"
        /\ UNCHANGED <<cam, log>>
  /\ UNCHANGED <<appVars, cfg, sent, yi, xk, failed, nonScanVars>>

\* scanner.py:111: cam.stop_recording, or it raises.
WorkerStopRecord ==
  /\ WorkerRuns /\ scan_pc = "stop_rec"
  /\ \/ /\ cam' = "started"
        /\ log' = Append(log, [op |-> "stop_recording"])
        /\ scan_pc' = "z_return"
        /\ UNCHANGED exit_cause
     \/ /\ scan_pc' = "cam_stop"
        /\ exit_cause' = "error"
        /\ UNCHANGED <<cam, log>>
  /\ UNCHANGED <<appVars, cfg, sent, yi, xk, failed, nonScanVars>>

\* scanner.py:116-118: finally: cam.stop(); cam.close()
WorkerCloseCamera ==
  /\ WorkerRuns /\ scan_pc = "cam_stop"
  /\ cam' = "closed"
  /\ log' = Append(log, [op |-> "cam_close"])
  /\ scan_pc' = "lift"
  /\ UNCHANGED <<appVars, cfg, sent, yi, xk, failed, exit_cause, nonScanVars>>

\* SIGINT (stop_scan, app.py:253) raises KeyboardInterrupt in the worker at
\* once, inside a blocking call too (send_gcode catches Exception only).
\* Inside the try block control passes to the finally block; before it, and
\* inside the finally block itself, the process ends there.
WorkerInterrupt ==
  /\ Alive(ScanProc) /\ sigint[ScanProc] /\ scan_pc # "off"
  /\ IF scan_pc \in TryPcs
       THEN /\ scan_pc' = "cam_stop"
            /\ sigint' = [sigint EXCEPT ![ScanProc] = FALSE]
            /\ UNCHANGED proc
       ELSE WorkerEnds("crashed")
  /\ sent' = FALSE
  /\ exit_cause' = "sigint"
  /\ UNCHANGED <<camera_lock, lock_holder, streaming_active, scan_process, config_file, th, reply,
                 cfg, yi, xk, cam, failed, log, nonScanVars>>

\* The configurations drawn for a run: scan areas of both directions, of zero
\* width, and no multiple of the step, with zero steps among them; the
\* defaults; and non-positive frame counts and frame rates.
ScanConfigs ==
  { [DefaultConfig EXCEPT !.start_x = sx, !.end_x = ex, !.step_size_x = dx,
                          !.end_y = ey, !.step_size_y = dy] :
      sx \in {0, 1}, ex \in -MaxSpan..MaxSpan, dx \in {-2, 0, 2},
      ey \in {-MaxSpan, 0, MaxSpan}, dy \in {0, 2} }
  \cup {DefaultConfig}
  \cup { [DefaultConfig EXCEPT !.end_x = ex, !.stack_frames = fr[1], !.framerate = fr[2]] :
           ex \in {0, 10},
           fr \in {<<0, 10>>, <<-150, 10>>, <<150, 0>>, <<150, -10>>, <<30, 30>>} }

\* The state in which start_scan has just spawned the worker (app.py:241).
InitScan ==
  /\ camera_lock = FALSE
  /\ lock_holder = 0
  /\ streaming_active = FALSE
  /\ scan_process = ScanProc
  /\ config_file = ScanProc
  /\ proc = [p \in Procs |-> IF p = ScanProc THEN "spawned" ELSE "none"]
  /\ sigint = [p \in Procs |-> FALSE]
  /\ th = [t \in Threads |-> IF t = 1 THEN [IdleThread EXCEPT !.resp = "started"]
                                      ELSE IdleThread]
  /\ reply = "none"
  /\ cfg \in ScanConfigs
  /\ scan_pc = "load"
  /\ sent = FALSE
  /\ yi = 0
  /\ xk = 0
  /\ cam = "none"
  /\ failed = FALSE
  /\ exit_cause = "none"
  /\ log = <<>>

NextScan ==
  \/ StopScan
  \/ WorkerStartCamera
  \/ WorkerGrid
  \/ WorkerSend
  \/ \E ok \in BOOLEAN : WorkerAck(ok)
  \/ WorkerRecord
  \/ WorkerStopRecord
  \/ WorkerCloseCamera
  \/ WorkerInterrupt

\* ======================================================================
\* burst.py: the frame-burst scan and its background writer
\* ======================================================================
Points == (0..STEPS_H - 1) \X (0..STEPS_W - 1)

\* The sentinel of burst.py:290 and a batch task of burst.py:266.
StopTask == [point |-> <<>>, frames |-> 0]
BatchTask(pt, n) == [point |-> pt, frames |-> n]
IsBatch(task) == task.point # <<>>

\* burst.py:247-248  w_range: the w_k-th column of row h_step.
w_step == IF h_step % 2 # 0 THEN STEPS_W - 1 - w_k ELSE w_k

\* The capture loop without its wait for the previous batch.
QueueDrainedUnchecked == TRUE

\* write_queue.qsize() == 0, the exit condition of the loop at burst.py:164.
QueueDrained == Len(write_queue) = 0

\* The batches put on write_queue and not yet taken by the writer.
BatchesWaiting == Cardinality({i \in 1..Len(write_queue) : IsBatch(write_queue[i])})

InitBurstOff ==
  /\ bpc = "off"
  /\ h_step = 0
  /\ w_k = 0
  /\ frame_buffer = 0
  /\ write_queue = <<>>
  /\ unfinished_tasks = 0
  /\ wpc = "off"
  /\ wtask = StopTask
  /\ wi = 0
  /\ saved = [pt \in Points |-> 0]
  /\ write_failures = 0
  /\ bexit = "none"
  /\ blog = <<>>

\* burst.py:216-217: main has started the writer thread and enters its try block.
InitBurst ==
  /\ bpc = "init_g90"
  /\ h_step = 0
  /\ w_k = 0
  /\ frame_buffer = 0
  /\ write_queue = <<>>
  /\ unfinished_tasks = 0
  /\ wpc = "get"
  /\ wtask = StopTask
  /\ wi = 0
  /\ saved = [pt \in Points |-> 0]
  /\ write_failures = 0
  /\ bexit = "none"
  /\ blog = <<>>

Gcode(c) == [cmd |-> c, at |-> <<h_step, w_step>>]

\* The positions of main (and perform_burst_capture_ram) at which one
\* send_gcode call is made, with the command sent and the position after it.
\* send_gcode (burst.py:93-102) swallows a failed request and returns.
GcodeAt(pc) ==
  CASE pc = "init_g90"  -> [cmd |-> "G90",    next |-> "get_pos"]   \* line 222
    [] pc = "xy"        -> [cmd |-> "G0 XY",  next |-> "m400_xy"]   \* line 255
    [] pc = "m400_xy"   -> [cmd |-> "M400",   next |-> "wait"]      \* line 258
    [] pc = "g91"       -> [cmd |-> "G91",    next |-> "z_down"]    \* line 177
    [] pc = "z_down"    -> [cmd |-> "G1 Z-",  next |-> "capture"]   \* line 179
    [] pc = "m400_z"    -> [cmd |-> "M400",   next |-> "g90"]       \* line 198
    [] pc = "g90"       -> [cmd |-> "G90",    next |-> "z_up"]      \* line 201
    [] pc = "z_up"      -> [cmd |-> "G1 Z",   next |-> "put"]       \* line 202
    [] pc = "home"      -> [cmd |-> "G0 XY0", next |-> "join"]      \* line 273
    [] pc = "g90_final" -> [cmd |-> "G90",    next |-> "exit"]      \* line 301
GcodePcs == {"init_g90", "xy", "m400_xy", "g91", "z_down", "m400_z", "g90", "z_up",
             "home", "g90_final"}
\* The try block of main, burst.py:220-279.
BurstTryPcs == {"init_g90", "get_pos", "init_cam", "xy", "m400_xy", "wait", "g91",
                "z_down", "capture", "m400_z", "g90", "z_up", "put", "home", "join"}

BurstSendGcode ==
  /\ bpc \in GcodePcs
  /\ blog' = Append(blog, Gcode(GcodeAt(bpc).cmd))
  /\ bpc' = GcodeAt(bpc).next
  /\ UNCHANGED <<h_step, w_k, frame_buffer, write_queue, unfinished_tasks,
                 wpc, wtask, wi, saved, write_failures, bexit, nonBurstVars>>

\* Leaving the try block for the finally block of burst.py:288.
BurstLeaveTry(cause) ==
  /\ bpc' = "put_none"
  /\ bexit' = cause

\* burst.py:223-226: the position query answers, or main raises.
BurstGetPosition ==
  /\ bpc = "get_pos"
  /\ \/ bpc' = "init_cam" /\ UNCHANGED bexit
     \/ BurstLeaveTry("error")
  /\ UNCHANGED <<h_step, w_k, frame_buffer, write_queue, unfinished_tasks,
                 wpc, wtask, wi, saved, write_failures, blog, nonBurstVars>>

\* burst.py:230-242: camera, output directory, parameters; the camera may raise.
BurstInitCamera ==
  /\ bpc = "init_cam"
  /\ \/ bpc' = "xy" /\ UNCHANGED bexit
     \/ BurstLeaveTry("error")
  /\ UNCHANGED <<h_step, w_k, frame_buffer, write_queue, unfinished_tasks,
                 wpc, wtask, wi, saved, write_failures, blog, nonBurstVars>>

\* burst.py:164-168: leave the wait loop once the queue is empty; the loop
\* sleeps and looks again otherwise.
BurstWaitQueue ==
  /\ bpc = "wait"
  /\ QueueDrained
  /\ bpc' = "g91"
  /\ frame_buffer' = 0
  /\ UNCHANGED <<h_step, w_k, write_queue, unfinished_tasks,
                 wpc, wtask, wi, saved, write_failures, bexit, blog, nonBurstVars>>

\* burst.py:184-195: one frame into RAM, or capture_array raises.
BurstCapture ==
  /\ bpc = "capture"
  /\ \/ /\ frame_buffer' = frame_buffer + 1
        /\ blog' = Append(blog, [cmd |-> "capture", at |-> <<h_step, w_step>>])
        /\ bpc' = IF frame_buffer + 1 = total_frames THEN "m400_z" ELSE "capture"
        /\ UNCHANGED bexit
     \/ /\ BurstLeaveTry("error")
        /\ UNCHANGED <<frame_buffer, blog>>
  /\ UNCHANGED <<h_step, w_k, write_queue, unfinished_tasks,
                 wpc, wtask, wi, saved, write_failures, nonBurstVars>>

\* burst.py:265-266 and the loop headers 245-250: hand the batch over, go on.
BurstPut ==
  /\ bpc = "put"
  /\ write_queue' = Append(write_queue, BatchTask(<<h_step, w_step>>, frame_buffer))
  /\ unfinished_tasks' = unfinished_tasks + 1
  /\ frame_buffer' = 0
  /\ IF w_k + 1 < STEPS_W
       THEN w_k' = w_k + 1 /\ bpc' = "xy" /\ UNCHANGED h_step
       ELSE IF h_step + 1 < STEPS_H
         THEN h_step' = h_step + 1 /\ w_k' = 0 /\ bpc' = "xy"
         ELSE bpc' = "home" /\ UNCHANGED <<h_step, w_k>>
  /\ UNCHANGED <<wpc, wtask, wi, saved, write_failures, bexit, blog, nonBurstVars>>

\* burst.py:279: write_queue.join() returns when every task put is done.
BurstJoinQueue ==
  /\ bpc = "join"
  /\ unfinished_tasks = 0
  /\ BurstLeaveTry("complete")
  /\ UNCHANGED <<h_step, w_k, frame_buffer, write_queue, unfinished_tasks,
                 wpc, wtask, wi, saved, write_failures, blog, nonBurstVars>>

\* The finally block of main, burst.py:288-303.
BurstFinallyPcs == {"put_none", "writer_join", "g90_final"}

\* Ctrl+C.  Inside the try block it is caught at burst.py:281 and the finally
\* block runs.  Inside the finally block nothing catches it: main ends there,
\* and the writer, a daemon thread (burst.py:216), ends with the process.
BurstInterrupt ==
  /\ bpc \in BurstTryPcs \cup BurstFinallyPcs
  /\ IF bpc \in BurstTryPcs
       THEN /\ BurstLeaveTry("interrupt")
            /\ UNCHANGED wpc
       ELSE /\ bpc' = "killed"
            /\ wpc' = IF wpc = "exited" THEN "exited" ELSE "killed"
            /\ UNCHANGED bexit
  /\ UNCHANGED <<h_step, w_k, frame_buffer, write_queue, unfinished_tasks,
                 wtask, wi, saved, write_failures, blog, nonBurstVars>>

\* burst.py:290: write_queue.put(None)
BurstPutNone ==
  /\ bpc = "put_none"
  /\ write_queue' = Append(write_queue, StopTask)
  /\ unfinished_tasks' = unfinished_tasks + 1
  /\ bpc' = "writer_join"
  /\ UNCHANGED <<h_step, w_k, frame_buffer, wpc, wtask, wi, saved,
                 write_failures, bexit, blog, nonBurstVars>>

\* burst.py:291-298: writer.join() returns when the writer has exited; then
\* camera.stop().
BurstJoinWriter ==
  /\ bpc = "writer_join"
  /\ wpc = "exited"
  /\ bpc' = "g90_final"
  /\ UNCHANGED <<h_step, w_k, frame_buffer, write_queue, unfinished_tasks,
                 wpc, wtask, wi, saved, write_failures, bexit, blog, nonBurstVars>>

\* ------------------------------------------------ background_writer (line 48)
\* burst.py:51-56: write_queue.get() blocks on an empty queue; None ends the thread.
WriterGet ==
  /\ wpc = "get"
  /\ write_queue # <<>>
  /\ wtask' = Head(write_queue)
  /\ write_queue' = Tail(write_queue)
  /\ wi' = 0
  /\ wpc' = IF IsBatch(Head(write_queue)) THEN "save" ELSE "exited"
  /\ UNCHANGED <<bpc, h_step, w_k, frame_buffer, unfinished_tasks, saved,
                 write_failures, bexit, blog, nonBurstVars>>

\* A save that raises sends the writer straight back to write_queue.get().
WriterSaveFailureSkipsDone(ok) ==
  /\ wpc = "save"
  /\ wi < wtask.frames
  /\ IF ok
       THEN /\ saved' = [saved EXCEPT ![wtask.point] = @ + 1]
            /\ wi' = wi + 1
            /\ UNCHANGED <<wpc, write_failures>>
       ELSE /\ write_failures < MaxWriteFailures
            /\ write_failures' = write_failures + 1
            /\ wpc' = "get"
            /\ UNCHANGED <<saved, wi>>
  /\ UNCHANGED <<bpc, h_step, w_k, frame_buffer, write_queue, unfinished_tasks,
                 wtask, bexit, blog, nonBurstVars>>

\* burst.py:59-69: save frame wi.  The try block encloses the whole for loop,
\* so a save that raises ends the loop over this batch.
WriterSave(ok) ==
  /\ wpc = "save"
  /\ wi < wtask.frames
  /\ IF ok
       THEN /\ saved' = [saved EXCEPT ![wtask.point] = @ + 1]
            /\ wi' = wi + 1
            /\ UNCHANGED <<wpc, write_failures>>
       ELSE /\ write_failures < MaxWriteFailures
            /\ write_failures' = write_failures + 1
            /\ wpc' = "task_done"
            /\ UNCHANGED <<saved, wi>>
  /\ UNCHANGED <<bpc, h_step, w_k, frame_buffer, write_queue, unfinished_tasks,
                 wtask, bexit, blog, nonBurstVars>>

\* The for loop of burst.py:61 is exhausted.
WriterSaved ==
  /\ wpc = "save"
  /\ wi = wtask.frames
  /\ wpc' = "task_done"
  /\ UNCHANGED <<bpc, h_step, w_k, frame_buffer, write_queue, unfinished_tasks,
                 wtask, wi, saved, write_failures, bexit, blog, nonBurstVars>>

\* burst.py:71-77: free the buffer, write_queue.task_done()
WriterTaskDone ==
  /\ wpc = "task_done"
  /\ unfinished_tasks' = unfinished_tasks - 1
  /\ wpc' = "get"
  /\ UNCHANGED <<bpc, h_step, w_k, frame_buffer, write_queue, wtask, wi, saved,
                 write_failures, bexit, blog, nonBurstVars>>

\* One step of the main thread other than a Ctrl+C, and one step of the
\* writer thread.
BurstMainStep ==
  \/ BurstSendGcode
  \/ BurstGetPosition
  \/ BurstInitCamera
  \/ BurstWaitQueue
  \/ BurstCapture
  \/ BurstPut
  \/ BurstJoinQueue
  \/ BurstPutNone
  \/ BurstJoinWriter
WriterStep ==
  \/ WriterGet
  \/ \E ok \in BOOLEAN : WriterSave(ok)
  \/ WriterSaved
  \/ WriterTaskDone

NextBurst ==
  \/ BurstSendGcode
  \/ BurstGetPosition
  \/ BurstInitCamera
  \/ BurstWaitQueue
  \/ BurstCapture
  \/ BurstPut
  \/ BurstJoinQueue
  \/ BurstInterrupt
  \/ BurstPutNone
  \/ BurstJoinWriter
  \/ WriterGet
  \/ \E ok \in BOOLEAN : WriterSave(ok)
  \/ WriterSaved
  \/ WriterTaskDone


\* ======================================================================
\* The grid calculation as a function of the configuration
\* ======================================================================
NoCalc == [by |-> "none", error |-> FALSE, steps_x |-> 0, steps_y |-> 0,
           actual_end_x |-> 0, actual_end_y |-> 0]

InitGridOff == calc = NoCalc

\* Math.sign
Sign(v) == IF v > 0 THEN 1 ELSE IF v < 0 THEN -1 ELSE 0

\* scanner.py:55-71 for the configuration cfg: the step counts, or the
\* ValueError of line 63.  run_scan reports no covered end coordinate; the
\* farthest column and row it visits are start + (steps - 1) * signed step.
RunScanGrid ==
  /\ calc' = IF StepSizeZero(cfg)
               THEN [NoCalc EXCEPT !.by = "run_scan", !.error = TRUE]
               ELSE [by |-> "run_scan", error |-> FALSE,
                     steps_x |-> steps_x(cfg), steps_y |-> steps_y(cfg),
                     actual_end_x |-> cfg.start_x + (steps_x(cfg) - 1) * x_step_size(cfg),
                     actual_end_y |-> cfg.start_y + (steps_y(cfg) - 1) * y_step_size(cfg)]
  /\ UNCHANGED <<cfg, nonGridVars>>

\* app.py:776-805  updateScanGrid, the page's own calculation: each axis by
\* itself, 0 steps for a zero step size.
JsSteps(span, step) == IF Abs(step) > 0 THEN Max(1, CeilDiv(Abs(span), Abs(step))) ELSE 0
UpdateScanGrid ==
  /\ LET sx == JsSteps(width_mm(cfg), cfg.step_size_x)
         sy == JsSteps(height_mm(cfg), cfg.step_size_y)
     IN calc' = [by |-> "updateScanGrid", error |-> FALSE,
                 steps_x |-> sx, steps_y |-> sy,
                 actual_end_x |-> cfg.start_x + (sx - 1) * Abs(cfg.step_size_x) * Sign(width_mm(cfg)),
                 actual_end_y |-> cfg.start_y + (sy - 1) * Abs(cfg.step_size_y) * Sign(height_mm(cfg))]
  /\ UNCHANGED <<cfg, nonGridVars>>

\* scanner.py:73-77 for the configuration cfg: the sweep speed, or the
\* ZeroDivisionError of line 76.
RunScanSpeed ==
  /\ calc' = IF DurationRaises(cfg)
               THEN [by |-> "run_scan_speed", error |-> TRUE, speed |-> Whole(0)]
               ELSE [by |-> "run_scan_speed", error |-> FALSE, speed |-> z_speed(cfg)]
  /\ UNCHANGED <<cfg, nonGridVars>>

\* The dry-run speed in mm/s.
DryRunSpeedPerSecond(c) ==
  IF c.stack_frames * c.framerate > 0
    THEN Frac(Abs(c.stack_end_z - c.stack_start_z) * Abs(c.framerate), Abs(c.stack_frames))
    ELSE Whole(1000)

\* app.py:261-268  z_dry_run: speed = (z_dist / duration) * 60 if duration > 0
\* else 1000, with duration = frames / framerate.
DryRunSpeed(c) ==
  IF c.stack_frames * c.framerate > 0
    THEN Frac(Abs(c.stack_end_z - c.stack_start_z) * 60 * Abs(c.framerate), Abs(c.stack_frames))
    ELSE Whole(1000)

\* z_dry_run up to the start of its motion thread (app.py:258-268): the
\* division of line 267 raises when framerate is 0.
ZDryRun ==
  /\ calc' = IF cfg.framerate = 0
               THEN [by |-> "z_dry_run", error |-> TRUE, speed |-> Whole(0)]
               ELSE [by |-> "z_dry_run", error |-> FALSE, speed |-> DryRunSpeed(cfg)]
  /\ UNCHANGED <<cfg, nonGridVars>>

\* The arguments of a move_to call: an axis left out (None) or a coordinate.
MoveToInputs == {Absent} \cup {<<v>> : v \in -MaxAxis..MaxAxis}

\* hardware.py:33-44  move_to(x, y, z) called alone: the commands it posts
\* and the value it returns, True without a command when no axis is given,
\* else whatever send_gcode returns.
MoveToCall(x, y, z, ok) ==
  /\ calc' = [by |-> "move_to", error |-> FALSE, x |-> x, y |-> y, z |-> z,
              posted |-> MoveTo(<<>>, x, y, z, Whole(5000)),
              result |-> (MoveTo(<<>>, x, y, z, Whole(5000)) = <<>> \/ ok)]
  /\ UNCHANGED <<cfg, nonGridVars>>

\* The inputs of the speed calculation: sweeps of both directions and of
\* zero length, frame counts and frame rates of either sign and zero.
SpeedConfigs ==
  { [DefaultConfig EXCEPT !.stack_start_z = a, !.stack_end_z = b,
                          !.stack_frames = n, !.framerate = r] :
      a \in 0..MaxZ, b \in 0..MaxZ, n \in -1..MaxFrames, r \in -1..MaxRate }
  \cup {DefaultConfig}

\* The inputs of the calculation: every X axis within the bounds, and a
\* sample of Y axes of both directions.
GridConfigs ==
  { [DefaultConfig EXCEPT !.start_x = sx, !.end_x = ex, !.step_size_x = dx,
                          !.start_y = ay[1], !.end_y = ay[2], !.step_size_y = ay[3]] :
      sx \in {-1, 0, 1}, ex \in -MaxCoord..MaxCoord, dx \in -MaxStep..MaxStep,
      ay \in {<<0, 10, 5>>, <<0, 12, 5>>, <<0, 0, 5>>, <<3, -4, 2>>, <<0, -10, -5>>,
              <<1, 8, -3>>, <<0, 10, 0>>} }

InitGrid ==
  /\ cfg \in GridConfigs \cup SpeedConfigs
  /\ scan_pc = "off"
  /\ sent = FALSE
  /\ yi = 0
  /\ xk = 0
  /\ cam = "none"
  /\ failed = FALSE
  /\ exit_cause = "none"
  /\ log = <<>>
  /\ calc = NoCalc

NextGrid ==
  \/ RunScanGrid
  \/ UpdateScanGrid
  \/ RunScanSpeed
  \/ ZDryRun

NextMove ==
  \E x \in MoveToInputs, y \in MoveToInputs, z \in MoveToInputs, ok \in BOOLEAN :
    MoveToCall(x, y, z, ok)

\* ======================================================================
\* app.py: calibrate, and the calibrate.py process it spawns
\* ======================================================================
InitCalibOff == calib = [c \in Calibs |-> "none"]

\* calibrate (app.py:211-218): 409 when streaming_active is set, else Popen of
\* calibrate.py and "calibration_started".  Neither camera_lock nor
\* scan_process is read.
Calibrate ==
  /\ IF streaming_active
       THEN /\ reply' = "stream_on"
            /\ UNCHANGED calib
       ELSE /\ \E c \in Calibs :
                 /\ calib[c] = "none"
                 /\ \A d \in Calibs : d < c => calib[d] # "none"
                 /\ calib' = [calib EXCEPT ![c] = "spawned"]
            /\ reply' = "calibration_started"
  /\ UNCHANGED <<camera_lock, lock_holder, streaming_active, scan_process, config_file, proc, sigint, th,
                 scanVars, burstVars, gridVars>>

\* calibrate.py:13-19  cam = Picamera2(), configure, start: the camera is
\* opened, or the call raises and run_calibration returns False (line 47).
CalibOpenCamera(c) ==
  /\ calib[c] = "spawned"
  /\ \/ calib' = [calib EXCEPT ![c] = "camera"]
     \/ calib' = [calib EXCEPT ![c] = "exited"]
  /\ UNCHANGED <<appVars, scanVars, burstVars, gridVars>>

\* calibrate.py:21-53: settle, read the metadata, stop and close the camera,
\* write calibration.json, exit.
CalibExit(c) ==
  /\ calib[c] = "camera"
  /\ calib' = [calib EXCEPT ![c] = "exited"]
  /\ UNCHANGED <<appVars, scanVars, burstVars, gridVars>>

\* ======================================================================
\* app.py: named configurations (save_named_config, load_named_config)
\* ======================================================================
\* A filename is a sequence of characters: a letter, the dot, the two
\* slashes, and "json", which stands for the four letters of the suffix.
Chars == {"a", "json", ".", "/", "\\"}
RECURSIVE SeqsUpTo(_)
SeqsUpTo(n) ==
  IF n = 0 THEN {<<>>}
  ELSE SeqsUpTo(n - 1) \cup {Append(f, c) : f \in {g \in SeqsUpTo(n - 1) : Len(g) = n - 1}, c \in Chars}
Filenames == SeqsUpTo(MaxLen)

CONFIGS_DIR == <<"configs">>      \* app.py:141, 170
JsonSuffix == <<".", "json">>     \* app.py:138-139

\* `sub in s` for a one- or two-character sub.
Contains(s, sub) ==
  \E i \in 1..Len(s) : Len(s) - i + 1 >= Len(sub) /\ SubSeq(s, i, i + Len(sub) - 1) = sub

\* The test with the check for '..' left out.
HasPathCharsNoDotDot(filename) ==
  Contains(filename, <<"/">>) \/ Contains(filename, <<"\\">>)

\* app.py:135, 167: '/' in filename or '\\' in filename or '..' in filename
HasPathChars(filename) ==
  Contains(filename, <<"/">>) \/ Contains(filename, <<"\\">>) \/ Contains(filename, <<".", ".">>)

EndsWith(s, suffix) ==
  Len(s) >= Len(suffix) /\ SubSeq(s, Len(s) - Len(suffix) + 1, Len(s)) = suffix

\* os.path.join(dir, name): an absolute name replaces the directory.
Join(dir, name) ==
  IF name # <<>> /\ Head(name) = "/" THEN name ELSE dir \o <<"/">> \o name

\* The components of a path, split at '/'.
RECURSIVE SplitPath(_)
SplitPath(path) ==
  IF path = <<>> THEN << <<>> >>
  ELSE LET r == SplitPath(Tail(path))
       IN IF Head(path) = "/" THEN << <<>> >> \o r
          ELSE << <<Head(path)>> \o Head(r) >> \o Tail(r)

\* The file system's resolution of the components: empty and '.' components
\* are skipped, '..' leaves the directory reached so far.
RECURSIVE Normalize(_, _)
Normalize(cs, acc) ==
  IF cs = <<>> THEN acc
  ELSE LET c == Head(cs)
       IN IF c = <<>> \/ c = <<".">> THEN Normalize(Tail(cs), acc)
          ELSE IF c = <<".", ".">>
            THEN Normalize(Tail(cs),
                           IF acc # <<>> /\ acc[Len(acc)] # <<".", ".">>
                             THEN SubSeq(acc, 1, Len(acc) - 1)
                             ELSE Append(acc, c))
          ELSE Normalize(Tail(cs), Append(acc, c))

\* Where a path leads, from the server's working directory or from the root.
Resolve(path) ==
  [absolute |-> (path # <<>> /\ Head(path) = "/"), parts |-> Normalize(SplitPath(path), <<>>)]

NoPath == [absolute |-> FALSE, parts |-> <<>>]
IsConfigsDir(r) == ~r.absolute /\ r.parts = <<CONFIGS_DIR>>

\* save_named_config (app.py:125-150).  has_config: the request carries a
\* non-empty 'config'; ok: open(filepath, 'w') and json.dump succeed (opening
\* a directory raises).  opened is where the path given to open() leads.
SaveNamedConfig(filename, has_config, ok) ==
  /\ LET name == IF EndsWith(filename, JsonSuffix) THEN filename ELSE filename \o JsonSuffix
         filepath == Join(CONFIGS_DIR, name)
     IN calc' =
          IF filename = <<>> \/ ~has_config
            THEN [by |-> "save_named_config", error |-> TRUE, filename |-> filename,
                  status |-> "required", opened |-> NoPath]
          ELSE IF HasPathChars(filename)
            THEN [by |-> "save_named_config", error |-> TRUE, filename |-> filename,
                  status |-> "invalid", opened |-> NoPath]
          ELSE IF ok /\ ~IsConfigsDir(Resolve(filepath))
            THEN [by |-> "save_named_config", error |-> FALSE, filename |-> filename,
                  status |-> "saved", opened |-> Resolve(filepath)]
          ELSE [by |-> "save_named_config", error |-> TRUE, filename |-> filename,
                status |-> "error", opened |-> Resolve(filepath)]
  /\ UNCHANGED <<cfg, nonGridVars>>

\* load_named_config (app.py:164-181).  The route's string converter gives a
\* non-empty filename.  kind: what os.path.exists and open find at filepath,
\* "missing", a "file" with a configuration, or something open or json.load
\* fails on ("bad"); a path that leads to the directory itself is no file.
LoadNamedConfig(filename, kind) ==
  /\ filename # <<>>
  /\ LET filepath == Join(CONFIGS_DIR, filename)
     IN calc' =
          IF HasPathChars(filename)
            THEN [by |-> "load_named_config", error |-> TRUE, filename |-> filename,
                  status |-> "invalid", opened |-> NoPath]
          ELSE IF kind = "missing"
            THEN [by |-> "load_named_config", error |-> TRUE, filename |-> filename,
                  status |-> "not_found", opened |-> NoPath]
          ELSE IF kind = "file" /\ ~IsConfigsDir(Resolve(filepath))
            THEN [by |-> "load_named_config", error |-> FALSE, filename |-> filename,
                  status |-> "loaded", opened |-> Resolve(filepath)]
          ELSE [by |-> "load_named_config", error |-> TRUE, filename |-> filename,
                status |-> "error", opened |-> Resolve(filepath)]
  /\ UNCHANGED <<cfg, nonGridVars>>

NextConfig ==
  \/ \E f \in Filenames, c \in BOOLEAN, ok \in BOOLEAN : SaveNamedConfig(f, c, ok)
  \/ \E f \in Filenames, k \in {"missing", "file", "bad"} : LoadNamedConfig(f, k)

\* ======================================================================
\* app.py: the motion requests of the server beside a run of scanner.py
\* ======================================================================
\* A command that printer.move_to of the server process posts to the
\* controller, as the controller's log records it; `by` names the caller.
\* Nothing is posted when no axis is given (hardware.py:41-44).
ManualMoveTo(l, by, x, y, z, speed) ==
  IF MoveParts(x, y, z) # <<>>
    THEN Append(l, [op |-> "manual", by |-> by, cmd |-> MoveCmd(x, y, z, speed)])
    ELSE l

IsManual(e) == e.op = "manual"

\* The motion requests served so far: the commands of move_printer, and the
\* dry runs started (their thread waiting to move, or their first move sent).
ManualRequests ==
  Cardinality({i \in 1..Len(log) : IsManual(log[i]) /\ log[i].by # "run_motion_sweep"})
  + Cardinality({t \in Threads : th[t].pc = "dry_start"})

\* The axis values a /api/move request carries: a key left out, or 0.
AxisInputs == {Absent, <<0>>}

\* move_printer (app.py:183-188): move_to with the axes of the request at the
\* default speed 3000; scan_process is not looked at.
MovePrinter(x, y, z) ==
  /\ ManualRequests < MaxManualRequests
  /\ log' = ManualMoveTo(log, "move_printer", x, y, z, Whole(3000))
  /\ reply' = "moved"
  /\ UNCHANGED <<camera_lock, lock_holder, streaming_active, scan_process, config_file, proc, sigint, th,
                 cfg, scan_pc, sent, yi, xk, cam, failed, exit_cause, nonScanVars>>

\* z_dry_run (app.py:257-280) up to its return: the speed is computed (the
\* division of line 267 raises for framerate 0) and the run_motion thread is
\* started; thread t stands for that thread.  scan_process is not looked at.
ZDryRunStart(t) ==
  /\ th[t].pc = "idle"
  /\ ManualRequests < MaxManualRequests
  /\ IF cfg.framerate = 0
       THEN th' = [th EXCEPT ![t] = [IdleThread EXCEPT !.resp = "error"]]
       ELSE th' = [th EXCEPT ![t] = [pc |-> "dry_start", resp |-> "motion_started",
                                      yielded |-> FALSE]]
  /\ UNCHANGED <<camera_lock, lock_holder, streaming_active, scan_process, config_file, proc, sigint, reply,
                 scanVars, nonScanVars>>

\* run_motion (app.py:270-276): move to the start of the stack at speed 2000,
\* sleep, then the sweep to the end of the stack at the computed speed.
RunMotion(t) ==
  /\ \/ /\ th[t].pc = "dry_start"
        /\ log' = ManualMoveTo(log, "run_motion_start", Absent, Absent,
                               <<cfg.stack_start_z>>, Whole(2000))
        /\ th' = [th EXCEPT ![t].pc = "dry_sweep"]
     \/ /\ th[t].pc = "dry_sweep"
        /\ log' = ManualMoveTo(log, "run_motion_sweep", Absent, Absent,
                               <<cfg.stack_end_z>>, DryRunSpeed(cfg))
        /\ th' = [th EXCEPT ![t].pc = "idle"]
  /\ UNCHANGED <<camera_lock, lock_holder, streaming_active, scan_process, config_file, proc, sigint, reply,
                 cfg, scan_pc, sent, yi, xk, cam, failed, exit_cause, nonScanVars>>

\* One run of scanner.py over a row of two grid points, every move of which
\* the controller acknowledges, with the motion requests of the server.
MotionConfig ==
  [DefaultConfig EXCEPT !.end_x = MaxSpan, !.step_size_x = 2, !.end_y = 0, !.step_size_y = 2]

InitMotion == InitScan /\ cfg = MotionConfig

NextMotion ==
  \/ StopScan
  \/ WorkerStartCamera
  \/ WorkerGrid
  \/ WorkerSend
  \/ WorkerAck(TRUE)
  \/ WorkerRecord
  \/ WorkerStopRecord
  \/ WorkerCloseCamera
  \/ WorkerInterrupt
  \/ \E x \in AxisInputs, y \in AxisInputs, z \in AxisInputs : MovePrinter(x, y, z)
  \/ \E t \in Threads : ZDryRunStart(t)
  \/ \E t \in Threads : RunMotion(t)

Init == InitApp /\ InitScanOff /\ InitBurstOff /\ InitGridOff /\ InitCalibOff

Next ==
  \/ \E t \in Threads : GenAcquire(t)
  \/ \E t \in Threads : GenInitCamera(t)
  \/ \E t \in Threads : GenYield(t)
  \/ \E t \in Threads : GenEnd(t)
  \/ \E a \in BOOLEAN : ToggleStream(a)
  \/ ForceRelease
  \/ \E t \in Threads : StartEnter(t)
  \/ \E t \in Threads : StartCheckStream(t)
  \/ \E t \in Threads : StartCheckProc(t)
  \/ \E t \in Threads : StartSpawn(t)
  \/ StopScan
  \/ \E p \in Procs : ProcOpenCamera(p)
  \/ \E p \in Procs : ProcExit(p)

Spec == Init /\ [][Next]_vars

\* The control surface in runs without force_release.
InitSpecNoForce == InitApp /\ InitScanOff /\ InitBurstOff /\ InitGridOff /\ InitCalibOff
NextNoForce ==
  \/ \E t \in Threads : GenAcquire(t)
  \/ \E t \in Threads : GenInitCamera(t)
  \/ \E t \in Threads : GenYield(t)
  \/ \E t \in Threads : GenEnd(t)
  \/ \E a \in BOOLEAN : ToggleStream(a)
  \/ \E t \in Threads : StartEnter(t)
  \/ \E t \in Threads : StartCheckStream(t)
  \/ \E t \in Threads : StartCheckProc(t)
  \/ \E t \in Threads : StartSpawn(t)
  \/ StopScan
  \/ \E p \in Procs : ProcOpenCamera(p)
  \/ \E p \in Procs : ProcExit(p)
SpecNoForce == InitSpecNoForce /\ [][NextNoForce]_vars

\* The control surface with the calibrate endpoint and its process.
InitSpecCalib == InitApp /\ InitScanOff /\ InitBurstOff /\ InitGridOff /\ InitCalibOff
NextCalib ==
  \/ Next
  \/ Calibrate
  \/ \E c \in Calibs : CalibOpenCamera(c)
  \/ \E c \in Calibs : CalibExit(c)
SpecCalib == InitSpecCalib /\ [][NextCalib]_vars

\* One run of scanner.py with stop_scan requests arriving at any time.
InitSpecScan == InitScan /\ InitBurstOff /\ InitGridOff /\ InitCalibOff
SpecScan == InitSpecScan /\ [][NextScan]_vars

\* One run of burst.py: the capture loop and the writer thread interleaved.
InitSpecBurst == InitApp /\ InitScanOff /\ InitBurst /\ InitGridOff /\ InitCalibOff
SpecBurst == InitSpecBurst /\ [][NextBurst]_vars

\* burst.py with both threads scheduled: a thread that can take a step
\* eventually takes one.  A Ctrl+C may come at any time or never.
InitSpecBurstFair == InitApp /\ InitScanOff /\ InitBurst /\ InitGridOff /\ InitCalibOff
SpecBurstFair ==
  /\ InitSpecBurstFair
  /\ [][NextBurst]_vars
  /\ WF_vars(BurstMainStep)
  /\ WF_vars(WriterStep)

\* The grid calculation applied to every configuration within the bounds.
InitSpecGrid == InitApp /\ InitBurstOff /\ InitGrid /\ InitCalibOff
SpecGrid == InitSpecGrid /\ [][NextGrid]_vars

\* Either scan script, run once: scanner.py (as SpecScan) or burst.py (as
\* SpecBurst).  The actions of the script that is not running are disabled.
InitSpecTraverse == InitSpecScan \/ InitSpecBurst
NextTraverse == NextScan \/ NextBurst
SpecTraverse == InitSpecTraverse /\ [][NextTraverse]_vars

\* move_to applied to every choice of axes within the bounds.
InitSpecMove == InitApp /\ InitScanOff /\ InitBurstOff /\ InitGridOff /\ InitCalibOff
SpecMove == InitSpecMove /\ [][NextMove]_vars

\* The two named-configuration handlers applied to every filename within
\* the bound.
InitSpecConfig == InitApp /\ InitScanOff /\ InitBurstOff /\ InitGridOff /\ InitCalibOff
SpecConfig == InitSpecConfig /\ [][NextConfig]_vars

\* One run of scanner.py beside the motion requests of the server.
InitSpecMotion == InitMotion /\ InitBurstOff /\ InitGridOff /\ InitCalibOff
SpecMotion == InitSpecMotion /\ [][NextMotion]_vars

\* ======================================================================
\* Properties
\* ======================================================================

\* C1: camera mutual exclusion.  In no reachable state do a live-preview
\* generator and a scan process both have the camera open.
C1_CameraMutualExclusion ==
  ~ \E t \in Threads, p \in Procs : GenCamera(t) /\ proc[p] = "camera"

\* C2: start_scan spawns no scan process while a live-preview generator holds
\* camera_lock (from its acquire to its cleanup, the camera-initialisation
\* window and the time after toggle_stream(false) or force_release included).
C2_StartRejectedWhilePreviewHolds ==
  [][(\E p \in Procs : proc[p] = "none" /\ proc'[p] = "spawned")
       => ~ \E t \in Threads : GenHolds(t)]_vars

\* C3: a live preview entered while a scan process is alive fails to acquire
\* camera_lock: no generator passes from its acquire to the camera
\* initialisation while a scan process is alive.
C3_PreviewRefusedWhileScanRuns ==
  [][\A t \in Threads : (th[t].pc = "idle" /\ th'[t].pc = "init")
       => ~ \E p \in Procs : Alive(p)]_vars

\* C4: at most one scan process is alive at any time.
C4_AtMostOneScanProcess == Cardinality({p \in Procs : Alive(p)}) <= 1

\* C5: backpressure bound.  At most one frame batch is in write_queue waiting
\* for the writer, in every state of the capture loop and the writer.
C5_BackpressureBound == BatchesWaiting <= 1

\* C5, its case: a batch waits in the queue while the writer is still saving
\* the one before and the capture loop is held at its wait.
C5_Witness == BatchesWaiting = 1 /\ bpc = "wait" /\ wpc = "save" /\ wi > 0

\* A grid point is in progress: its XY move has been issued and its Z return
\* has not completed.
MidPoint == (scan_pc = "xy" /\ sent) \/ scan_pc \in {"z_start", "record", "sweep",
                                                      "stop_rec", "z_return"}

\* C6: stop is cooperative.  A stop request never makes the worker leave the
\* loop in the middle of a grid point; it takes effect between grid points.
C6_StopOnlyBetweenPoints ==
  [][(exit_cause # "sigint" /\ exit_cause' = "sigint") => ~MidPoint]_vars

\* The Z lift of scanner.py:119 is in the log.
LiftIssued ==
  \E i \in 1..Len(log) :
    log[i] = MoveCmd(Absent, Absent, <<cfg.stack_start_z + 5>>, Whole(5000))

\* C7: cleanup on every exit.  Whenever the worker has ended after starting
\* the camera, the camera has been closed and the Z lift has been issued.
C7_CleanupOnEveryExit ==
  (scan_pc \in {"done", "crashed"} /\ cam # "none") => (cam = "closed" /\ LiftIssued)

\* What the cleanup of run_scan sends: the camera close, the lift, its ack.
CleanupEvent(e) ==
  \/ e.op \in {"cam_close", "ack"}
  \/ e = MoveCmd(Absent, Absent, <<cfg.stack_start_z + 5>>, Whole(5000))

\* C8: a failed move aborts the run.  Once a move_to has returned False,
\* nothing but the cleanup is sent: no grid-point motion and no recording.
C8_FailedMoveAborts ==
  [][(failed /\ log' # log) => CleanupEvent(log'[Len(log')])]_vars

InvalidConfig(c) ==
  c.step_size_x = 0 \/ c.step_size_y = 0 \/ c.stack_frames <= 0 \/ c.framerate <= 0

\* C9: invalid configuration is rejected before any motion.  With a zero step
\* size or a non-positive frame count or frame rate, run_scan sends no move
\* command and does not run to completion.
C9_InvalidConfigNoMotion ==
  InvalidConfig(cfg) =>
    /\ \A i \in 1..Len(log) : log[i].op # "move"
    /\ scan_pc # "done"

\* n is max(1, ceil(|span| / |step|)): the least n >= 1 with n * |step| >= |span|.
IsStepCount(n, span, step) ==
  /\ n >= 1
  /\ n * Abs(step) >= Abs(span)
  /\ n > 1 => (n - 1) * Abs(step) < Abs(span)

XCounted == \/ calc.by = "run_scan" /\ ~calc.error
            \/ calc.by = "updateScanGrid" /\ cfg.step_size_x # 0
YCounted == \/ calc.by = "run_scan" /\ ~calc.error
            \/ calc.by = "updateScanGrid" /\ cfg.step_size_y # 0

\* C10: step count.  For every start, end and non-zero step size the number
\* of columns is max(1, ceil(|end_x - start_x| / |step_size_x|)) and likewise
\* the number of rows; (0, 10, 5) gives 2, (0, 12, 5) gives 3, and a
\* zero-width axis gives 1.
C10_StepCount ==
  /\ XCounted => /\ IsStepCount(calc.steps_x, cfg.end_x - cfg.start_x, cfg.step_size_x)
                 /\ (cfg.start_x = 0 /\ cfg.end_x = 10 /\ cfg.step_size_x = 5) => calc.steps_x = 2
                 /\ (cfg.start_x = 0 /\ cfg.end_x = 12 /\ cfg.step_size_x = 5) => calc.steps_x = 3
                 /\ cfg.end_x = cfg.start_x => calc.steps_x = 1
  /\ YCounted => /\ IsStepCount(calc.steps_y, cfg.end_y - cfg.start_y, cfg.step_size_y)
                 /\ (cfg.start_y = 0 /\ cfg.end_y = 10 /\ cfg.step_size_y = 5) => calc.steps_y = 2
                 /\ (cfg.start_y = 0 /\ cfg.end_y = 12 /\ cfg.step_size_y = 5) => calc.steps_y = 3
                 /\ cfg.end_y = cfg.start_y => calc.steps_y = 1

\* C10, its case: run_scan has counted an area that is no multiple of the step.
C10_Witness ==
  /\ calc.by = "run_scan" /\ ~calc.error
  /\ cfg.start_x = 0 /\ cfg.end_x = 12 /\ cfg.step_size_x = 5 /\ calc.steps_x = 3
  /\ cfg.start_y = 0 /\ cfg.end_y = 0 /\ calc.steps_y = 1

\* The n-th point of a zig-zag over rows of `cols` columns, as <<row, column>>:
\* rows in increasing order, even rows ascending, odd rows descending.
ZigZagPoint(n, cols) ==
  LET r == (n - 1) \div cols
      k == (n - 1) % cols
  IN <<r, IF r % 2 = 0 THEN k ELSE cols - 1 - k>>

IsZigZag(seq, rows, cols) ==
  /\ Len(seq) <= rows * cols
  /\ \A n \in 1..Len(seq) : seq[n] = ZigZagPoint(n, cols)

\* The grid points run_scan has recorded (tile_{yi}_{xi}.h264), in order.
IsStartRecording(e) == e.op = "start_recording"
ScanVisited ==
  LET r == SelectSeq(log, IsStartRecording) IN [n \in 1..Len(r) |-> r[n].tile]

\* The grid points burst.py has moved to (line 255), in order.
IsXYMove(e) == e.cmd = "G0 XY"
BurstVisited ==
  LET r == SelectSeq(blog, IsXYMove) IN [n \in 1..Len(r) |-> r[n].at]

\* C11: zig-zag traversal.  Both scan scripts visit the rows in increasing
\* order, the columns of an even row ascending and those of an odd row
\* descending, and a run that completes has visited every point of the grid.
C11_ZigZagTraversal ==
  /\ ~StepSizeZero(cfg) =>
       /\ IsZigZag(ScanVisited, steps_y(cfg), steps_x(cfg))
       /\ exit_cause = "complete" => Len(ScanVisited) = steps_y(cfg) * steps_x(cfg)
  /\ IsZigZag(BurstVisited, STEPS_H, STEPS_W)
  /\ bexit = "complete" => Len(BurstVisited) = STEPS_H * STEPS_W

\* C11, its case: run_scan has completed a grid of two rows and two columns,
\* the second row from the last column back to the first.
C11_Witness ==
  /\ exit_cause = "complete"
  /\ ScanVisited = << <<0, 0>>, <<0, 1>>, <<1, 1>>, <<1, 0>> >>

\* The XY moves run_scan has sent (scanner.py:95), in order, as <<x, y>>.
IsXYCommand(e) == e.op = "move" /\ Len(e.parts) = 2
XYTargets ==
  LET r == SelectSeq(log, IsXYCommand)
  IN [n \in 1..Len(r) |-> <<r[n].parts[1][2], r[n].parts[2][2]>>]

\* The sign of a difference, a zero difference taken as positive.
SignZeroPositive(v) == IF v >= 0 THEN 1 ELSE -1

\* The coordinates of the grid point <<row, column>>.
PointTarget(c, pt) ==
  << c.start_x + pt[2] * Abs(c.step_size_x) * SignZeroPositive(c.end_x - c.start_x),
     c.start_y + pt[1] * Abs(c.step_size_y) * SignZeroPositive(c.end_y - c.start_y) >>

IsPrefix(a, b) == Len(a) <= Len(b) /\ \A n \in 1..Len(a) : a[n] = b[n]

\* C12: grid point coordinates.  The n-th XY move of a run targets
\* x = start_x + c * |step_size_x| * sign(end_x - start_x) and
\* y = start_y + r * |step_size_y| * sign(end_y - start_y) for the n-th grid
\* point (r, c), a zero difference taken as positive; with start (0,0),
\* end (10,10) and step (5,5) the targets are (0,0), (5,0), (5,5), (0,5).
C12_GridPointCoordinates ==
  ~StepSizeZero(cfg) =>
    /\ \A n \in 1..Len(XYTargets) :
         XYTargets[n] = PointTarget(cfg, ZigZagPoint(n, steps_x(cfg)))
    /\ cfg = DefaultConfig =>
         /\ IsPrefix(XYTargets, << <<0, 0>>, <<5, 0>>, <<5, 5>>, <<0, 5>> >>)
         /\ exit_cause = "complete" => Len(XYTargets) = 4

\* C12, its case: the default configuration has been scanned to the end.
C12_Witness ==
  /\ cfg = DefaultConfig /\ exit_cause = "complete"
  /\ XYTargets = << <<0, 0>>, <<5, 0>>, <<5, 5>>, <<0, 5>> >>

SpeedComputed == calc.by \in {"run_scan_speed", "z_dry_run"}

\* C13: sweep speed formula.  For positive stack_frames and framerate the
\* speed is (|stack_end_z - stack_start_z| / (stack_frames / framerate)) * 60;
\* when stack_frames / framerate is zero the speed is 1000 and nothing is
\* divided by zero; the scan worker and the Z dry run compute the same value.
C13_SweepSpeedFormula ==
  SpeedComputed =>
    /\ (cfg.stack_frames > 0 /\ cfg.framerate > 0) =>
         /\ ~calc.error
         /\ calc.speed.den > 0
         /\ calc.speed.num * cfg.stack_frames =
              calc.speed.den * Abs(cfg.stack_end_z - cfg.stack_start_z) * 60 * cfg.framerate
    /\ (cfg.stack_frames = 0 /\ cfg.framerate # 0) =>
         ~calc.error /\ calc.speed = Whole(1000)
    /\ calc.by = "z_dry_run" =>
         /\ calc.error = DurationRaises(cfg)
         /\ ~calc.error => calc.speed = z_speed(cfg)

\* C13, its case: the dry run has computed the speed of a sweep of 3 mm
\* recorded in 4 frames at 3 frames per second, 135 mm/min.
C13_Witness ==
  /\ calc.by = "z_dry_run" /\ ~calc.error
  /\ cfg.stack_start_z = 3 /\ cfg.stack_end_z = 0
  /\ cfg.stack_frames = 4 /\ cfg.framerate = 3
  /\ calc.speed = [num |-> 135, den |-> 1]

\* The speeds of the Z-sweep moves (to stack_end_z, scanner.py:108) in the log.
SweepSpeeds ==
  { log[i].speed : i \in { j \in 1..Len(log) :
      log[j].op = "move" /\ log[j].parts = << <<"Z", cfg.stack_end_z>> >> } }

\* C14: end-to-end sweep speed.  With stack_start_z = 5, stack_end_z = 0,
\* stack_frames = 150 and framerate = 10 the scan worker commands the sweep at
\* (5 / (150 / 10)) * 60 = 20 controller speed units.
C14_DefaultSweepSpeed == cfg = DefaultConfig => SweepSpeeds \subseteq {Whole(20)}

\* C14 as stated: with the same configuration the sweep speed is 30.
C14_AsStated == cfg = DefaultConfig => SweepSpeeds \subseteq {Whole(30)}

\* C14, its case: the worker has commanded a sweep of the default configuration.
C14_Witness == cfg = DefaultConfig /\ SweepSpeeds = {Whole(20)}

\* C15: frame write failure is contained.  When the writer has finished with
\* a batch, every frame of the batch has been written except the frames
\* whose write failed: a failed frame does not keep the later frames of the
\* batch from being written.
C15_WriteFailureContained ==
  (wpc = "task_done" /\ IsBatch(wtask)) =>
    saved[wtask.point] >= wtask.frames - write_failures

\* C16: drain on shutdown.  On every exit path of the burst scan, no batch
\* that was put on write_queue is dropped: when main has ended, no batch is
\* left waiting in the queue.
C16_DrainOnShutdown == bpc \in {"exit", "killed"} => BatchesWaiting = 0

\* C17: release is safe when not held.  When a live-preview generator runs
\* its cleanup after the lock has been freed (by force_release), the release
\* raises no error and the lock stays free.
C17_ReleaseSafeWhenNotHeld ==
  [][\A t \in Threads :
       (GenHolds(t) /\ th'[t].pc = "idle" /\ ~camera_lock) =>
         (th'[t].resp = "ended" /\ ~camera_lock')]_vars

\* C18: force_release can be called in every state; it returns "released" and
\* leaves camera_lock unlocked and streaming_active false, whoever held the
\* lock; with the lock free and the flag false it changes neither, nor
\* anything else of the server's state.
C18_ForceReleaseAlwaysFrees ==
  [][/\ ENABLED ForceRelease
     /\ ForceRelease =>
          /\ reply' = "released" /\ ~camera_lock' /\ ~streaming_active'
          /\ (~camera_lock /\ ~streaming_active) =>
               UNCHANGED <<camera_lock, streaming_active, scan_process, proc, sigint, th>>]_vars

\* C18, its case: the lock has been forced free while a live-preview
\* generator that had acquired it is still streaming.
C18_Witness ==
  /\ reply = "released" /\ ~camera_lock /\ ~streaming_active
  /\ \E t \in Threads : th[t].pc = "stream"

\* C19: stop_scan with no scan process alive (never started, or exited)
\* returns "not_running", sends no signal and leaves the process handle, the
\* camera lock and the streaming flag unchanged, however often it is repeated.
C19_StopWhenNotRunning ==
  [][(StopScan /\ \A p \in Procs : proc[p] \in {"none", "exited"}) =>
       /\ reply' = "not_running"
       /\ UNCHANGED <<sigint, scan_process, proc, camera_lock, streaming_active, th>>]_vars

\* C19, its case: stop_scan has answered "not_running" for a scan process
\* that was started and has exited.
C19_Witness ==
  /\ reply = "not_running"
  /\ scan_process # 0 /\ proc[scan_process] = "exited"
  /\ \A p \in Procs : proc[p] \in {"none", "exited"}

\* The Z-sweep move of scanner.py:108.
IsSweep(e) == e.op = "move" /\ e.parts = << <<"Z", cfg.stack_end_z>> >>

\* C20: capture brackets the sweep.  At every grid point start_recording is
\* called just before the Z-sweep move is issued, and stop_recording only
\* after that move has been acknowledged, with nothing sent in between.
C20_CaptureBracketsSweep ==
  \A i \in 1..Len(log) :
    /\ IsSweep(log[i]) => (i > 1 /\ log[i - 1].op = "start_recording")
    /\ log[i].op = "stop_recording" =>
         /\ i > 3
         /\ log[i - 1] = [op |-> "ack", ok |-> TRUE]
         /\ IsSweep(log[i - 2])
         /\ log[i - 3].op = "start_recording"

\* C21  Single motion caller: while a scan run is in progress (scan_status
\* reports running), no command of move_printer or of a dry-run thread is
\* posted to the motion controller.
C21_SingleMotionCaller ==
  [][(Len(log') = Len(log) + 1 /\ IsManual(log'[Len(log')])) => ~ScanRunning]_vars

\* The axes given to the move_to call of calc, by name.
Supplied ==
  (IF calc.x # Absent THEN {<<"X", calc.x[1]>>} ELSE {}) \cup
  (IF calc.y # Absent THEN {<<"Y", calc.y[1]>>} ELSE {}) \cup
  (IF calc.z # Absent THEN {<<"Z", calc.z[1]>>} ELSE {})

\* C22  Partial-axis move: move_to posts one command that names exactly the
\* axes supplied, each once with its value, an axis of 0 included; when no
\* axis is supplied it posts nothing and returns True.
C22_PartialAxisMove ==
  calc.by = "move_to" =>
    IF Supplied = {}
      THEN calc.posted = <<>> /\ calc.result
      ELSE /\ Len(calc.posted) = 1
           /\ calc.posted[1].op = "move"
           /\ Len(calc.posted[1].parts) = Cardinality(Supplied)
           /\ {calc.posted[1].parts[i] : i \in 1..Len(calc.posted[1].parts)} = Supplied

\* A call with x = 0 and z = 2 and no y has posted its command.
C22_Witness ==
  /\ calc.by = "move_to"
  /\ calc.x = <<0>> /\ calc.y = Absent /\ calc.z = <<2>>
  /\ Len(calc.posted) = 1

NamedConfigCall == calc.by \in {"save_named_config", "load_named_config"}

\* C23  No path escape for named configurations: a filename with '/', '\' or
\* '..' in it is answered with an error ("invalid", or "required" by
\* save_named_config) with no file opened, and every filename
\* answered with success has led to a file directly inside the configs
\* directory.
C23_NoPathEscape ==
  NamedConfigCall =>
    /\ ( \/ \E i \in 1..Len(calc.filename) : calc.filename[i] \in {"/", "\\"}
         \/ \E i \in 1..Len(calc.filename) - 1 :
              calc.filename[i] = "." /\ calc.filename[i + 1] = "." )
       => /\ calc.status = "invalid"
             \/ (calc.by = "save_named_config" /\ calc.status = "required")
          /\ calc.opened = NoPath
    /\ calc.status \in {"saved", "loaded"} =>
         /\ ~calc.opened.absolute
         /\ Len(calc.opened.parts) = 2
         /\ calc.opened.parts[1] = <<"configs">>
         /\ calc.opened.parts[2] \notin {<<>>, <<".">>, <<".", ".">>}

\* A configuration saved under a name with a dot in it.
C23_Witness ==
  /\ calc.by = "save_named_config" /\ calc.status = "saved"
  /\ calc.filename = <<".", "a">>
  /\ calc.opened.parts = <<CONFIGS_DIR, <<".", "a", ".", "json">> >>

\* The frame batches in memory that are not yet written: the one the capture
\* loop is filling or holds, those waiting on write_queue, and the one the
\* writer holds (until its task_done).
BatchesInMemory ==
  (IF frame_buffer > 0 THEN 1 ELSE 0)
  + BatchesWaiting
  + (IF wpc \in {"save", "task_done"} THEN 1 ELSE 0)

\* C24  Memory bound of the offload pipeline: at most two frame batches are
\* captured (fully or partly) and not yet completely written.
C24_MemoryBound == BatchesInMemory <= 2

\* A burst is being captured while the writer saves the previous batch.
C24_Witness ==
  /\ bpc = "capture" /\ frame_buffer > 0
  /\ wpc = "save" /\ wi < wtask.frames
  /\ BatchesInMemory = 2

\* C25  Stop ends the run: once a stop request has reached the running
\* worker, the worker is in its cleanup or has ended, so it starts no further
\* XY move and no further recording; when it has ended, the cleanup has run
\* (camera closed, Z lift issued) and scan_status reports running = false.
C25_StopEndsRun ==
  exit_cause = "sigint" =>
    /\ scan_pc \in FinallyPcs \cup {"done", "crashed"}
    /\ scan_pc \in {"done", "crashed"} => (cam = "closed" /\ LiftIssued /\ ~ScanStatus)

\* The Z moves of run_scan to the stack start (scanner.py:114) and to the
\* safe height (scanner.py:83).
IsZReturn(e) == e = MoveCmd(Absent, Absent, <<cfg.stack_start_z>>, Whole(1000))
IsSafeZ(e) == e = MoveCmd(Absent, Absent, <<cfg.stack_start_z + 2>>, Whole(1000))

\* C26  Z is returned before XY travel.  In run_scan the first XY move comes
\* after the move to the safe height, and every later XY move comes right
\* after a Z move to the stack start that has been acknowledged; in burst.py
\* the last Z command before an XY move is never the downward sweep.
C26_ZReturnedBeforeXY ==
  /\ \A i \in 1..Len(log) :
       IsXYCommand(log[i]) =>
         IF \E j \in 1..(i - 1) : IsXYCommand(log[j])
           THEN /\ i > 2
                /\ IsZReturn(log[i - 2])
                /\ log[i - 1] = [op |-> "ack", ok |-> TRUE]
           ELSE \E j \in 1..(i - 1) : IsSafeZ(log[j])
  /\ \A i \in 1..Len(blog) :
       blog[i].cmd = "G0 XY" =>
         \A j \in 1..(i - 1) :
           blog[j].cmd = "G1 Z-" => \E k \in (j + 1)..(i - 1) : blog[k].cmd = "G1 Z"

\* C27  Capture brackets the sweep (frame-burst mode): at every grid point the
\* first frame of the burst is captured before the Z-sweep command is sent,
\* and the last frame is still to be captured when the M400 that waits for
\* the end of the sweep is sent.
C27_BurstCaptureBracketsSweep ==
  \A i \in 1..Len(blog) :
    /\ blog[i].cmd = "G1 Z-" =>
         \E j \in 1..(i - 1) : blog[j].cmd = "capture" /\ blog[j].at = blog[i].at
    /\ (blog[i].cmd = "M400" /\ i > 1 /\ blog[i - 1].cmd # "G0 XY") =>
         Cardinality({j \in 1..(i - 1) : blog[j].cmd = "capture" /\ blog[j].at = blog[i].at})
           < total_frames

\* C28  Single live-preview holder: under every interleaving of video-feed
\* connections, disconnections and force_release calls at most one generator
\* has the camera open, and a generator's cleanup releases camera_lock only
\* when the lock is its own: never while another generator's acquire holds it.
C28_SingleLivePreviewHolder ==
  [][/\ Cardinality({t \in Threads : th'[t].pc = "stream"}) <= 1
     /\ \A t \in Threads :
          (GenHolds(t) /\ th'[t].pc = "idle" /\ camera_lock) =>
            lock_holder \notin Threads \ {t}]_vars

\* C29  Toggling the stream off stops it: a live-preview generator that finds
\* streaming_active false at a turn of its frame loop yields no further
\* frame; the only thing it does is end, its cleanup closing the camera and
\* releasing camera_lock.
C29_ToggleOffStopsStream ==
  [][\A t \in Threads :
       (th[t].pc = "stream" /\ ~streaming_active /\ th'[t] # th[t]) =>
         (th'[t].pc = "idle" /\ ~camera_lock')]_vars

\* C30  Calibration respects camera exclusivity: calibrate starts calibrate.py
\* only when no live-preview generator has the camera and no scan process is
\* alive; otherwise it returns an error and spawns nothing.
C30_CalibrationExclusive ==
  [][(Calibrate /\ ((\E t \in Threads : GenCamera(t)) \/ (\E p \in Procs : Alive(p)))) =>
       (reply' = "stream_on" /\ calib' = calib)]_vars

\* C31  Busy means held: streaming_active is set only while a live-preview
\* generator holds camera_lock, and start_scan answers "stream active" only
\* while a generator holds the camera.
C31_BusyMeansHeld ==
  [][/\ streaming_active' => \E t \in Threads : th'[t].pc \in {"init", "stream"}
     /\ \A t \in Threads :
          (th[t].pc = "check_stream" /\ th'[t].resp = "busy_stream") =>
            \E u \in Threads : GenHolds(u)]_vars

C33_RejectedStartChangesNothing ==
  [][/\ \A t \in Threads :
          (th[t].pc \in {"check_stream", "check_proc"} /\ th'[t].pc = "idle") =>
            /\ th'[t].resp \in {"busy_stream", "busy_scan"}
            /\ UNCHANGED <<config_file, proc, scan_process, sigint>>
     /\ config_file' # config_file =>
          \E t \in Threads :
            /\ th[t].pc = "spawn" /\ th'[t].resp = "started"
            /\ proc[config_file'] = "none" /\ proc'[config_file'] = "spawned"
            /\ scan_process' = config_file']_vars

\* A start has been rejected because the scan started by an earlier request,
\* whose configuration the file holds, is still running.
C33_Witness ==
  /\ \E t \in Threads : th[t].pc = "idle" /\ th[t].resp = "busy_scan"
  /\ scan_process # 0 /\ config_file = scan_process /\ ScanRunning

\* The grid of run_scan: every <<row, column>> pair.
GridPoints(c) == (0..(steps_y(c) - 1)) \X (0..(steps_x(c) - 1))

\* C34  Each grid point exactly once: run_scan records at grid points only,
\* never twice at one point (so never twice to one file tile_{row}_{column}),
\* and a run that is not interrupted has recorded at every point, steps_x *
\* steps_y recordings in all.
C34_EachPointOnce ==
  ~StepSizeZero(cfg) =>
    /\ \A n \in 1..Len(ScanVisited) : ScanVisited[n] \in GridPoints(cfg)
    /\ \A m, n \in 1..Len(ScanVisited) : ScanVisited[m] = ScanVisited[n] => m = n
    /\ exit_cause = "complete" =>
         /\ {ScanVisited[n] : n \in 1..Len(ScanVisited)} = GridPoints(cfg)
         /\ Len(ScanVisited) = steps_x(cfg) * steps_y(cfg)

\* A run over two rows and two columns towards negative X has completed.
C34_Witness ==
  /\ exit_cause = "complete" /\ scan_pc = "done"
  /\ cfg.end_x < cfg.start_x
  /\ Len(ScanVisited) = 4 /\ Cardinality(GridPoints(cfg)) = 4

\* Two grid points one column apart in one row, or one row apart in one column.
Adjacent(p, q) ==
  \/ p[1] = q[1] /\ Abs(p[2] - q[2]) = 1
  \/ p[2] = q[2] /\ Abs(p[1] - q[1]) = 1

\* C35  Adjacent-step traversal: any two grid points that run_scan visits one
\* after the other are one column apart in the same row or one row apart in
\* the same column; between two rows the column does not change, so the
\* traversal never goes back to the first column of the next row.
C35_AdjacentSteps ==
  ~StepSizeZero(cfg) =>
    \A n \in 1..(Len(ScanVisited) - 1) :
      /\ Adjacent(ScanVisited[n], ScanVisited[n + 1])
      /\ ScanVisited[n + 1][1] # ScanVisited[n][1] =>
           ScanVisited[n + 1][2] = ScanVisited[n][2]

\* The run went from the end of the first row to the point below it, in the
\* last column, and on to the next point of the second row.
C35_Witness ==
  /\ ~StepSizeZero(cfg)
  /\ steps_x(cfg) = 2 /\ steps_y(cfg) = 2
  /\ Len(ScanVisited) >= 3
  /\ ScanVisited[2] = <<0, 1>> /\ ScanVisited[3] = <<1, 1>>

\* v lies in the closed interval between a and b, whichever is the larger.
Between(v, a, b) == (a <= v /\ v <= b) \/ (b <= v /\ v <= a)

\* The farthest coordinate from start among the values vs, start if none.
Farthest(vs, start) ==
  IF vs = {} THEN start
  ELSE CHOOSE v \in vs : \A u \in vs : Abs(u - start) <= Abs(v - start)

\* C36  No overshoot of the requested area: every XY target run_scan issues
\* lies between start and the requested end on each axis, at start on an axis
\* of zero width, and when the run completes the farthest target on each axis
\* is start + (steps - 1) * signed step.
C36_NoOvershoot ==
  ~StepSizeZero(cfg) =>
    /\ \A n \in 1..Len(XYTargets) :
         /\ Between(XYTargets[n][1], cfg.start_x, cfg.end_x)
         /\ Between(XYTargets[n][2], cfg.start_y, cfg.end_y)
    /\ exit_cause = "complete" =>
         /\ Farthest({XYTargets[n][1] : n \in 1..Len(XYTargets)}, cfg.start_x)
              = cfg.start_x + (steps_x(cfg) - 1) * x_step_size(cfg)
         /\ Farthest({XYTargets[n][2] : n \in 1..Len(XYTargets)}, cfg.start_y)
              = cfg.start_y + (steps_y(cfg) - 1) * y_step_size(cfg)

\* A completed run over an X axis of width 3 with step 2, which is not a
\* whole number of steps: the farthest target is short of the requested end.
C36_Witness ==
  /\ exit_cause = "complete"
  /\ Abs(width_mm(cfg)) = 3 /\ step_size_x_abs(cfg) = 2
  /\ \E n \in 1..Len(XYTargets) : Abs(XYTargets[n][1] - cfg.start_x) = 2

\* C37  The final wait terminates: the writer calls task_done once for every
\* batch it dequeued, also when a save raised, so once main waits in
\* write_queue.join() after the last point, then, unless a Ctrl+C arrives, the
\* join returns with the queue drained, the writer consumes the exit signal,
\* writer.join() returns and main goes on to its last G90.
C37_FinalWaitTerminates ==
  (bpc = "join") ~>
    \/ bexit = "interrupt"
    \/ bpc = "killed"
    \/ /\ bexit = "complete"
       /\ bpc \in {"g90_final", "exit"}
       /\ wpc = "exited"
       /\ write_queue = <<>>
       /\ unfinished_tasks = 1

\* A run in which a save raised has completed: the wait for pending writes
\* and the join on the writer have both returned.
C37_Witness ==
  /\ bexit = "complete"
  /\ bpc = "exit"
  /\ wpc = "exited"
  /\ write_failures > 0
  /\ \A pt \in Points : pt # <<0, 0>> => saved[pt] = total_frames

\* The positioning mode of the controller before the n-th entry of blog: the
\* last of G90 and G91 sent before it, every command being accepted.
IsModeCommand(e) == e.cmd \in {"G90", "G91"}
ModeBefore(n) ==
  LET s == {m \in 1..(n - 1) : IsModeCommand(blog[m])}
  IN IF s = {} THEN "unknown"
     ELSE blog[CHOOSE m \in s : \A k \in s : k <= m].cmd

\* The commands with absolute coordinates, and what is sent during a Z sweep.
IsAbsoluteMove(e) == e.cmd \in {"G0 XY", "G1 Z", "G0 XY0"}
IsSweepStep(e) == e.cmd \in {"G1 Z-", "capture", "M400", "G90"}

\* C38  Positioning mode discipline in the burst scan: every move with
\* absolute coordinates is sent in absolute mode, whatever is sent in relative
\* mode belongs to the Z sweep, and when main has ended, by completion,
\* interrupt or error, the controller is not left in relative mode.
C38_ModeDiscipline ==
  /\ \A n \in 1..Len(blog) :
       /\ IsAbsoluteMove(blog[n]) => ModeBefore(n) = "G90"
       /\ ModeBefore(n) = "G91" => IsSweepStep(blog[n])
  /\ bpc \in {"exit", "killed"} => ModeBefore(Len(blog) + 1) # "G91"

\* The first two clauses of C38 alone, and the last clause for the runs in
\* which main reaches the end of its finally block.
ModeDisciplineWhileRunning ==
  \A n \in 1..Len(blog) :
    /\ IsAbsoluteMove(blog[n]) => ModeBefore(n) = "G90"
    /\ ModeBefore(n) = "G91" => IsSweepStep(blog[n])
AbsoluteAtOrderlyExit == bpc = "exit" => ModeBefore(Len(blog) + 1) = "G90"

=============================================================================
